---- MODULE Spec2Model ----
(***************************************************************************)
(* A model of src/dce/dce_fit.py (mjt320/mrifit): the conversions between  *)
(* signal, enhancement and concentration, the multi-compartment forward    *)
(* model and the multi-start fitting functions.                            *)
(*                                                                         *)
(* Floating-point values are modelled as exact rationals extended with     *)
(* the IEEE-754 specials numpy produces instead of raising: a value is a   *)
(* record [n, d] with d > 0 for the rational n/d (in lowest terms), and    *)
(* d = 0 for not-a-number (n = 0), +infinity (n = 1), -infinity (n = -1).  *)
(* Rounding, overflow and the sign of zero are not modelled.               *)
(***************************************************************************)
EXTENDS Integers, Sequences, FiniteSets, TLC

VARIABLES
    pc,        \* "idle", "done", or the loop the program is inside
    op,        \* the function of dce_fit.py that was called
    args,      \* its arguments
    ret,       \* [kind |-> "none" | "ok" | "raise", val |-> ...]
    x_0_all,   \* minimize_global: the initial guesses
    cost,      \* minimize_global: the cost function, candidate point -> value
    calls,     \* the initial guesses scipy's minimize was called with, in order
    results,   \* minimize_global: results, one per finished local minimization
    idx,       \* minimize_global: the index it selected (0 before it returns)
    roots,     \* enh_to_conc: the results scipy's root returned, in order
    C_t        \* enh_to_conc: the concentrations collected so far

vars == <<pc, op, args, ret, x_0_all, cost, calls, results, idx, roots, C_t>>

----------------------------------------------------------------------------
(* Bounds of the model *)

\* longest time series (signal, enhancement) the translator is called with
MaxLen == 3
\* largest signal sample
MaxSig == 2
\* parameter values are the multiples k/Den, k in -1..Den
Den == 2
\* most initial guesses handed to minimize_global
MaxStarts == 2
\* candidate points of the abstract cost function
MaxCand == 2
\* largest value of the abstract cost function
MaxCost == 2
\* time points of a fitted series
NT == 2

----------------------------------------------------------------------------
(* numpy float arithmetic *)

Abs(n) == IF n < 0 THEN -n ELSE n

Sign(n) == IF n < 0 THEN -1 ELSE IF n > 0 THEN 1 ELSE 0

RECURSIVE Gcd(_, _)
Gcd(a, b) == IF b = 0 THEN a ELSE Gcd(b, a % b)

\* the value n/d; d = 0 gives nan or a signed infinity
F(n, d) ==
    IF d = 0 THEN [n |-> Sign(n), d |-> 0]
    ELSE LET g == Gcd(Abs(n), Abs(d))
             s == IF d < 0 THEN -1 ELSE 1
         IN  [n |-> (s * n) \div g, d |-> (s * d) \div g]

Num(n) == [n |-> n, d |-> 1]

NaN == [n |-> 0, d |-> 0]
PInf == [n |-> 1, d |-> 0]
NInf == [n |-> -1, d |-> 0]

IsNaN(a) == a.d = 0 /\ a.n = 0
IsInf(a) == a.d = 0 /\ a.n # 0
IsFinite(a) == a.d > 0

FNeg(a) == [n |-> -a.n, d |-> a.d]

FAdd(a, b) ==
    IF IsNaN(a) \/ IsNaN(b) THEN NaN
    ELSE IF IsInf(a) /\ IsInf(b) THEN (IF a.n = b.n THEN a ELSE NaN)
    ELSE IF IsInf(a) THEN a
    ELSE IF IsInf(b) THEN b
    ELSE LET g == Gcd(a.d, b.d)
         IN  F(a.n * (b.d \div g) + b.n * (a.d \div g), (a.d \div g) * b.d)

FSub(a, b) == FAdd(a, FNeg(b))

FMul(a, b) ==
    IF IsNaN(a) \/ IsNaN(b) THEN NaN
    ELSE IF IsInf(a) \/ IsInf(b) THEN F(a.n * b.n, 0)
    ELSE LET g1 == Gcd(Abs(a.n), b.d)
             g2 == Gcd(Abs(b.n), a.d)
         IN  F((a.n \div g1) * (b.n \div g2), (a.d \div g2) * (b.d \div g1))

\* numpy division: x/0 is nan for x = 0 and a signed infinity otherwise
FDiv(a, b) ==
    IF IsNaN(a) \/ IsNaN(b) THEN NaN
    ELSE LET num == a.n * b.d
             den == a.d * b.n
         IN  IF den = 0
             THEN F(Sign(num) * (IF b.n < 0 THEN -1 ELSE 1), 0)
             ELSE F(num, den)

\* a < b as floats compare: false when either side is nan
FLt(a, b) ==
    IF IsNaN(a) \/ IsNaN(b) THEN FALSE
    ELSE IF IsInf(a) \/ IsInf(b) THEN a # b /\ (a = NInf \/ b = PInf)
    ELSE a.n * b.d < b.n * a.d

\* a == b as floats compare: nan equals nothing
FEq(a, b) == ~IsNaN(a) /\ ~IsNaN(b) /\ a = b

RECURSIVE FSumFrom(_, _)
FSumFrom(s, i) == IF i > Len(s) THEN Num(0) ELSE FAdd(s[i], FSumFrom(s, i + 1))

\* np.sum of a 1D array
FSum(s) == FSumFrom(s, 1)

\* sequences over S of length 0..n
SeqsUpTo(S, n) == UNION {[1..k -> S] : k \in 0..n}

\* an exception raised to the caller
Raise(e) == [kind |-> "raise", val |-> e]

\* a normal return
Ok(v) == [kind |-> "ok", val |-> v]

NoRet == [kind |-> "none", val |-> "none"]

----------------------------------------------------------------------------
(* sig_to_enh *)

Percent == 100

\* what a mutation of sig_to_enh that drops the baseline selection computes
sig_to_enh_all_samples(s, base_idx) ==
    LET s_pre == FDiv(FSum(s), Num(Len(s)))
    IN  [i \in 1..Len(s) |-> FMul(Num(Percent), FDiv(FSub(s[i], s_pre), s_pre))]

\* s: the signal samples; base_idx: 0-based indices into s, all in range
sig_to_enh(s, base_idx) ==
    LET s_pre == FDiv(FSum([j \in 1..Len(base_idx) |-> s[base_idx[j] + 1]]),
                      Num(Len(base_idx)))
    IN  [i \in 1..Len(s) |-> FMul(Num(Percent), FDiv(FSub(s[i], s_pre), s_pre))]

ExampleSignal == <<100, 100, 100, 150, 140, 120>>
ExampleBaseline == <<0, 1, 2>>

\* the calls of sig_to_enh the model makes: every short non-empty series with every
\* short index list (an index may be one past the end), and the worked example
SigInputs ==
    {<<s, b>> : s \in SeqsUpTo(0..MaxSig, MaxLen) \ {<<>>}, b \in SeqsUpTo(0..MaxLen, MaxLen)}
    \cup {<<ExampleSignal, ExampleBaseline>>}

Call_sig_to_enh ==
    /\ pc = "idle"
    /\ \E inp \in SigInputs :
         LET s == inp[1]
             base_idx == inp[2]
         IN  /\ \A j \in 1..Len(base_idx) : base_idx[j] <= Len(s)
             /\ args' = [s |-> s, base_idx |-> base_idx]
             /\ ret' = IF \E j \in 1..Len(base_idx) : base_idx[j] >= Len(s)
                       THEN Raise("IndexError")
                       ELSE Ok(sig_to_enh([i \in 1..Len(s) |-> Num(s[i])], base_idx))
    /\ op' = "sig_to_enh"
    /\ pc' = "done"
    /\ UNCHANGED <<x_0_all, cost, calls, results, idx, roots, C_t>>

----------------------------------------------------------------------------
(* volume_fractions *)

\* parameter values: k/Den for k in -1..Den
ParVals == {F(k, Den) : k \in (-1)..Den}

\* haematocrit values: k/Den for k in 0..Den
HctVals == {F(k, Den) : k \in 0..Den}

\* the key sets of the parameter dicts: with and without 'vp' and 've'
KeySets == {{"vp", "ps", "ve"}, {"ps", "ve"}, {"vp", "ps"}, {"ps"}}

PkPars == UNION {[K -> ParVals] : K \in KeySets}

\* what a mutation that forgets the blood volume in vi computes
volume_fractions_vi_without_vb(pk_pars, hct) ==
    LET vb == IF "vp" \in DOMAIN pk_pars
              THEN FDiv(pk_pars["vp"], FSub(Num(1), hct))
              ELSE Num(0)
    IN  IF "ve" \in DOMAIN pk_pars
        THEN [b |-> vb, e |-> pk_pars["ve"], i |-> FSub(Num(1), pk_pars["ve"])]
        ELSE [b |-> vb, e |-> FSub(Num(1), vb), i |-> Num(0)]

volume_fractions(pk_pars, hct) ==
    LET vb == IF "vp" \in DOMAIN pk_pars
              THEN FDiv(pk_pars["vp"], FSub(Num(1), hct))
              ELSE Num(0)
    IN  IF "ve" \in DOMAIN pk_pars
        THEN [b |-> vb, e |-> pk_pars["ve"],
              i |-> FSub(FSub(Num(1), vb), pk_pars["ve"])]
        ELSE [b |-> vb, e |-> FSub(Num(1), vb), i |-> Num(0)]

Call_volume_fractions ==
    /\ pc = "idle"
    /\ \E pk_pars \in PkPars, hct \in HctVals :
         /\ args' = [pk_pars |-> pk_pars, hct |-> hct]
         /\ ret' = Ok(volume_fractions(pk_pars, hct))
    /\ op' = "volume_fractions"
    /\ pc' = "done"
    /\ UNCHANGED <<x_0_all, cost, calls, results, idx, roots, C_t>>

----------------------------------------------------------------------------
(* The collaborator models conc_to_enh and pkp_to_enh are handed.  They are *)
(* strategy objects with rational equations, so that every value is exact. *)

\* relaxivities of the concentration-relaxation model (1/s/mM)
r1_relaxivity == Num(1)
r2_relaxivity == F(1, 4)

\* c_to_r_model.R1 and c_to_r_model.R2: linear in the concentration
c_to_r_R1(R10, c) == FAdd(R10, FMul(r1_relaxivity, c))
c_to_r_R2(R20, c) == FAdd(R20, FMul(r2_relaxivity, c))

\* signal_model.R_to_s: saturation recovery R1/(1 + R1) times the decay
\* 1/(1 + R2s), scaled by s0 and the flip angle factor k
R_to_s(s0, R1, R2, R2s, k) ==
    FMul(FMul(s0, k),
         FMul(FDiv(R1, FAdd(Num(1), R1)), FDiv(Num(1), FAdd(Num(1), R2s))))

----------------------------------------------------------------------------
(* conc_to_enh and enh_to_conc *)

\* the forward model for one sample
conc_to_enh(c, k, R10) ==
    LET R1 == c_to_r_R1(R10, c)
        R2 == c_to_r_R2(Num(0), c)
        s_pre == R_to_s(Num(1), R10, Num(0), Num(0), k)
        s_post == R_to_s(Num(1), R1, R2, R2, k)
    IN  FMul(Num(Percent), FDiv(FSub(s_post, s_pre), s_pre))

\* the concentrations scipy's root may stop at
ConcGrid == {Num(0), F(1, 2), Num(1), Num(2), Num(4)}

\* the roots of e - conc_to_enh(c) = 0
Roots(e, k, R10) == {c \in ConcGrid : FSub(e, conc_to_enh(c, k, R10)) = Num(0)}

\* the start value of the root search
x0 == Num(0)

\* scipy.optimize.root(f, x0=0, method='hybr'): an OptimizeResult whose x is
\* an array of one element.  The search stays at x0 when x0 is a root;
\* otherwise x is a root of f when it reports success (which root is the
\* solver's choice), and the last iterate when it does not
root(e, k, R10) ==
    IF x0 \in Roots(e, k, R10)
    THEN {[success |-> TRUE, x |-> <<x0>>]}
    ELSE {[success |-> TRUE, x |-> <<c>>] : c \in Roots(e, k, R10)}
         \cup {[success |-> FALSE, x |-> <<c>>] : c \in ConcGrid}

RECURSIVE PyMinScan(_, _, _)
PyMinScan(s, i, best) ==
    IF i > Len(s) THEN best
    ELSE PyMinScan(s, i + 1, IF FLt(s[i], s[best]) THEN i ELSE best)

\* the position of the item Python's min(s) returns: the first item is
\* replaced by a later one only when the later one is smaller
PyMinIndex(s) == PyMinScan(s, 2, 1)

\* what enh_to_conc_single would do without its assertion
enh_to_conc_single_unchecked(res) == Ok(res.x[PyMinIndex(res.x)])

\* what enh_to_conc_single would do if it returned the start value x0 = 0
enh_to_conc_single_x0(res) ==
    IF ~res.success THEN Raise("AssertionError") ELSE Ok(x0)

\* enh_to_conc_single, given the result of its call of root
enh_to_conc_single(res) ==
    IF ~res.success THEN Raise("AssertionError")
    ELSE Ok(res.x[PyMinIndex(res.x)])

\* enhancement samples: those the forward model produces on ConcGrid, and
\* 100 (%), which it produces for no concentration
EnhVals == {conc_to_enh(c, Num(1), Num(1)) : c \in ConcGrid} \cup {Num(Percent)}

Call_enh_to_conc ==
    /\ pc = "idle"
    /\ \E enh \in SeqsUpTo(EnhVals, MaxLen) :
         args' = [enh |-> enh, k |-> Num(1), R10 |-> Num(1)]
    /\ op' = "enh_to_conc"
    /\ pc' = "enh_to_conc"
    /\ roots' = <<>>
    /\ C_t' = <<>>
    /\ UNCHANGED <<ret, x_0_all, cost, calls, results, idx>>

\* one element of the list comprehension: enh_to_conc_single(e)
Step_enh_to_conc_single ==
    /\ pc = "enh_to_conc"
    /\ Len(C_t) < Len(args.enh)
    /\ LET e == args.enh[Len(C_t) + 1]
       IN  \E res \in root(e, args.k, args.R10) :
             LET r == enh_to_conc_single(res)
             IN  /\ roots' = Append(roots, [e |-> e, res |-> res])
                 /\ IF r.kind = "raise"
                    THEN /\ ret' = r
                         /\ pc' = "done"
                         /\ C_t' = C_t
                    ELSE /\ C_t' = Append(C_t, r.val)
                         /\ UNCHANGED <<ret, pc>>
    /\ UNCHANGED <<op, args, x_0_all, cost, calls, results, idx>>

Return_enh_to_conc ==
    /\ pc = "enh_to_conc"
    /\ Len(C_t) = Len(args.enh)
    /\ ret' = Ok(C_t)
    /\ pc' = "done"
    /\ UNCHANGED <<op, args, x_0_all, cost, calls, results, idx, roots, C_t>>

----------------------------------------------------------------------------
(* pkp_to_enh *)

\* the plasma concentration the pharmacokinetic model is driven by: zero at
\* the first (pre-contrast) time point, then rising
c_p(t) == Num(t - 1)

RECURSIVE c_p_cumulative(_)
c_p_cumulative(t) == IF t = 0 THEN Num(0) ELSE FAdd(c_p(t), c_p_cumulative(t - 1))

\* pk_model.conc(**pk_pars) at time point t: the tissue, capillary plasma
\* and extravascular concentrations (per unit tissue volume).  The plasma
\* term is vp * c_p and exists only for a model with a plasma volume; the
\* extravascular term is ps times the accumulated plasma concentration
pk_model_conc_at(pk_pars, t) ==
    LET C_cp == IF "vp" \in DOMAIN pk_pars
                THEN FMul(pk_pars["vp"], c_p(t)) ELSE Num(0)
        C_e == FMul(pk_pars["ps"], c_p_cumulative(t))
    IN  [C_t |-> FAdd(C_cp, C_e), C_cp |-> C_cp, C_e |-> C_e]

\* the tissue concentration series of pk_model.conc
pk_model_conc_C_t(pk_pars) == [t \in 1..NT |-> pk_model_conc_at(pk_pars, t).C_t]

WaterExModels == {"fxl", "nxl"}

\* water_ex_model.R1_components(p, R1) for one time point: in the fast
\* exchange limit one component, the p-weighted mean rate, of weight 1; in
\* the no exchange limit one component per compartment, weighted by p
R1_components(wx, p, R1) ==
    IF wx = "fxl"
    THEN [R |-> <<FSum(<<FMul(p.b, R1.b), FMul(p.e, R1.e), FMul(p.i, R1.i)>>)>>,
          p |-> <<Num(1)>>]
    ELSE [R |-> <<R1.b, R1.e, R1.i>>, p |-> <<p.b, p.e, p.i>>]

\* the three divisors of pkp_to_enh
pkp_divisors(pk_pars, hct) ==
    LET v == volume_fractions(pk_pars, hct)
    IN  [one_minus_vb |-> FSub(Num(1), v.b), vb |-> v.b, ve |-> v.e]

\* np.sum([p_c * signal_model.R_to_s(1, R_components[i], k=k) ...], 0)
component_signal(comp, k) ==
    FSum([j \in 1..Len(comp.p) |->
            FMul(comp.p[j], R_to_s(Num(1), comp.R[j], Num(0), Num(0), k))])

\* pkp_to_enh at time point t
pkp_to_enh_at(pk_pars, hct, k, R10_tissue, R10_blood, wx, t) ==
    LET v == volume_fractions(pk_pars, hct)
        p == v
        R10_extravasc == FDiv(FSub(R10_tissue, FMul(p.b, R10_blood)),
                              FSub(Num(1), p.b))
        R10 == [b |-> R10_blood, e |-> R10_extravasc, i |-> R10_extravasc]
        C == pk_model_conc_at(pk_pars, t)
        c == [b |-> FDiv(C.C_cp, v.b), e |-> FDiv(C.C_e, v.e), i |-> Num(0)]
        R1 == [b |-> c_to_r_R1(R10.b, c.b),
               e |-> c_to_r_R1(R10.e, c.e),
               i |-> c_to_r_R1(R10.i, c.i)]
        s_pre == component_signal(R1_components(wx, p, R10), k)
        s_post == component_signal(R1_components(wx, p, R1), k)
    IN  FDiv(FMul(Num(Percent), FSub(s_post, s_pre)), s_pre)

pkp_to_enh(pk_pars, hct, k, R10_tissue, R10_blood, wx) ==
    [t \in 1..NT |-> pkp_to_enh_at(pk_pars, hct, k, R10_tissue, R10_blood, wx, t)]

\* pre-contrast relaxation rates of tissue and blood the model is called with
R10_tissue_val == Num(1)
R10_blood_val == F(1, 2)

Call_pkp_to_enh ==
    /\ pc = "idle"
    /\ \E pk_pars \in PkPars, hct \in HctVals, wx \in WaterExModels :
         /\ \A key \in DOMAIN pk_pars : ~FLt(pk_pars[key], Num(0))
         /\ args' = [pk_pars |-> pk_pars, hct |-> hct, k |-> Num(1),
                     R10_tissue |-> R10_tissue_val, R10_blood |-> R10_blood_val,
                     water_ex_model |-> wx]
         /\ ret' = Ok(pkp_to_enh(pk_pars, hct, Num(1), R10_tissue_val,
                                 R10_blood_val, wx))
    /\ op' = "pkp_to_enh"
    /\ pc' = "done"
    /\ UNCHANGED <<x_0_all, cost, calls, results, idx, roots, C_t>>

----------------------------------------------------------------------------
(* minimize_global *)

\* scipy.optimize.minimize(cost, x_0, ...): an OptimizeResult holding the
\* point the local minimization stopped at, the cost there, and whether the
\* optimizer reports convergence.  Non-convergence is reported in the
\* result, not raised
minimize(f, x_0) ==
    {[x |-> x, fun |-> f[x], success |-> b] : x \in DOMAIN f, b \in BOOLEAN}

\* costs.index(costs[m]): the first position holding the object itself or a
\* value equal to it
ListIndex(costs, m) ==
    CHOOSE i \in 1..Len(costs) :
        /\ (i = m \/ FEq(costs[i], costs[m]))
        /\ \A j \in 1..(i - 1) : ~(j = m \/ FEq(costs[j], costs[m]))

\* what a selection of the last of the lowest costs would return
minimize_global_last(res) ==
    LET costs == [i \in 1..Len(res) |-> res[i].fun]
        m == PyMinIndex(costs)
    IN  CHOOSE i \in 1..Len(costs) :
            /\ FEq(costs[i], costs[m])
            /\ \A j \in (i + 1)..Len(costs) : ~FEq(costs[j], costs[m])

\* the index minimize_global selects among its results (1-based); the
\* caller makes sure there is at least one result
minimize_global(res) ==
    LET costs == [i \in 1..Len(res) |-> res[i].fun]
        m == PyMinIndex(costs)
    IN  ListIndex(costs, m)

\* the abstract cost functions minimize_global is called with directly
CostFns == {[x \in 1..MaxCand |-> Num(f[x])] : f \in [1..MaxCand -> 0..MaxCost]}

Call_minimize_global ==
    /\ pc = "idle"
    /\ \E f \in CostFns, starts \in SeqsUpTo(1..MaxCand, MaxStarts) :
         /\ cost' = f
         /\ x_0_all' = starts
         /\ args' = [cost |-> f, x_0_all |-> starts]
    /\ op' = "minimize_global"
    /\ pc' = "minimize_global"
    /\ results' = <<>>
    /\ calls' = <<>>
    /\ idx' = 0
    /\ UNCHANGED <<ret, roots, C_t>>

\* one element of the list comprehension: minimize(cost, x_0, **kwargs)
Step_minimize ==
    /\ pc = "minimize_global"
    /\ Len(results) < Len(x_0_all)
    /\ LET x_0 == x_0_all[Len(results) + 1]
       IN  \E res \in minimize(cost, x_0) :
             /\ results' = Append(results, res)
             /\ calls' = Append(calls, x_0)
    /\ UNCHANGED <<pc, op, args, ret, x_0_all, cost, idx, roots, C_t>>

\* min() of an empty list raises ValueError
Return_minimize_global ==
    /\ pc = "minimize_global"
    /\ op = "minimize_global"
    /\ Len(results) = Len(x_0_all)
    /\ IF Len(results) = 0
       THEN ret' = Raise("ValueError") /\ idx' = 0
       ELSE /\ idx' = minimize_global(results)
            /\ ret' = Ok(results[idx'])
    /\ pc' = "done"
    /\ UNCHANGED <<op, args, x_0_all, cost, calls, results, roots, C_t>>

----------------------------------------------------------------------------
(* conc_to_pkp and enh_to_pkp *)

\* pk_model: the order of its parameters in an array, and typical_vals
PkModels ==
    {[keys |-> <<"vp", "ps", "ve">>, typical_vals |-> <<F(1, 4), F(1, 2), F(1, 2)>>],
     [keys |-> <<"ps", "ve">>, typical_vals |-> <<F(1, 2), F(1, 4)>>]}

\* pk_model.pkp_dict and pk_model.pkp_array
pkp_dict(pk_model, x) ==
    [key \in {pk_model.keys[j] : j \in 1..Len(pk_model.keys)} |->
        x[CHOOSE j \in 1..Len(pk_model.keys) : pk_model.keys[j] = key]]

pkp_array(pk_model, pars) == [j \in 1..Len(pk_model.keys) |-> pars[pk_model.keys[j]]]

\* the parameter sets the fits start from and can stop at: the typical
\* values, and the typical values with the last parameter at zero
PkCandidates(pk_model) ==
    {pkp_dict(pk_model, pk_model.typical_vals),
     pkp_dict(pk_model, [j \in 1..Len(pk_model.keys) |->
                IF j = Len(pk_model.keys) THEN Num(0) ELSE pk_model.typical_vals[j]])}

\* x_0 / x_scalefactor and x_norm * x_scalefactor
Normalize(pk_model, x) == [j \in 1..Len(x) |-> FDiv(x[j], pk_model.typical_vals[j])]
Denormalize(pk_model, x_norm) ==
    [j \in 1..Len(x_norm) |-> FMul(x_norm[j], pk_model.typical_vals[j])]

\* the default arguments: None is the empty sequence, a given value v is <<v>>
pk_pars_0_or_default(a) ==
    IF a.pk_pars_0 = <<>>
    THEN <<pkp_dict(a.pk_model, a.pk_model.typical_vals)>>
    ELSE a.pk_pars_0[1]

weights_or_default(a) ==
    IF a.weights = <<>> THEN [t \in 1..Len(a.data) |-> Num(1)] ELSE a.weights[1]

\* the weighted sum of squares of conc_to_pkp and enh_to_pkp
ssq(weights, try, data) ==
    FSum([t \in 1..Len(data) |->
            FMul(weights[t], FMul(FSub(try[t], data[t]), FSub(try[t], data[t])))])

\* the cost function of conc_to_pkp
conc_to_pkp_cost(a, x_norm) ==
    LET x == Denormalize(a.pk_model, x_norm)
        C_t_try == pk_model_conc_C_t(pkp_dict(a.pk_model, x))
    IN  ssq(weights_or_default(a), C_t_try, a.data)

\* the cost function of enh_to_pkp
enh_to_pkp_cost(a, x_norm) ==
    LET x == Denormalize(a.pk_model, x_norm)
        pk_pars_try == pkp_dict(a.pk_model, x)
        enh_try == pkp_to_enh(pk_pars_try, a.hct, a.k, a.R10_tissue, a.R10_blood,
                              a.water_ex_model)
    IN  ssq(weights_or_default(a), enh_try, a.data)

\* array[weights == 0] = nan
nan_where_weight_zero(series, weights) ==
    [t \in 1..Len(series) |-> IF FEq(weights[t], Num(0)) THEN NaN ELSE series[t]]

\* conc_to_pkp after minimize_global returned result
conc_to_pkp_result(a, result) ==
    LET x_opt == Denormalize(a.pk_model, result.x)
        pk_pars_opt == pkp_dict(a.pk_model, x_opt)
        Ct_fit == pk_model_conc_C_t(pk_pars_opt)
    IN  [pk_pars_opt |-> pk_pars_opt,
         fit |-> nan_where_weight_zero(Ct_fit, weights_or_default(a))]

\* enh_to_pkp after minimize_global returned result
enh_to_pkp_result(a, result) ==
    LET x_opt == Denormalize(a.pk_model, result.x)
        pk_pars_opt == pkp_dict(a.pk_model, x_opt)
        enh_fit == pkp_to_enh(pk_pars_opt, a.hct, a.k, a.R10_tissue, a.R10_blood,
                              a.water_ex_model)
    IN  [pk_pars_opt |-> pk_pars_opt,
         fit |-> nan_where_weight_zero(enh_fit, weights_or_default(a))]

\* observed samples (a masked sample may hold not-a-number) and weights of
\* the fitted series
DataVals == {Num(0), Num(1), NaN}
WeightVals == {Num(0), Num(1)}

\* the arguments the two fits share
FitInputs ==
    {[pk_model |-> m, data |-> d, pk_pars_0 |-> p0, weights |-> w] :
        m \in PkModels, d \in [1..NT -> DataVals],
        p0 \in {<<>>} \cup {<<l>> : l \in UNION {SeqsUpTo(PkCandidates(mm), MaxStarts)
                                                  : mm \in PkModels}},
        w \in {<<>>} \cup {<<ww>> : ww \in [1..NT -> WeightVals]}}

\* the normalised points the local minimizations can stop at
CandNorm(pk_model) ==
    {Normalize(pk_model, pkp_array(pk_model, pars)) : pars \in PkCandidates(pk_model)}

Call_conc_to_pkp ==
    /\ pc = "idle"
    /\ \E a \in FitInputs :
         /\ \A j \in 1..Len(pk_pars_0_or_default(a)) :
               pk_pars_0_or_default(a)[j] \in PkCandidates(a.pk_model)
         /\ args' = a
         /\ x_0_all' = [j \in 1..Len(pk_pars_0_or_default(a)) |->
                          Normalize(a.pk_model,
                                    pkp_array(a.pk_model, pk_pars_0_or_default(a)[j]))]
         /\ cost' = [x \in CandNorm(a.pk_model) |-> conc_to_pkp_cost(a, x)]
    /\ op' = "conc_to_pkp"
    /\ pc' = "minimize_global"
    /\ results' = <<>>
    /\ calls' = <<>>
    /\ idx' = 0
    /\ UNCHANGED <<ret, roots, C_t>>

Return_conc_to_pkp ==
    /\ pc = "minimize_global"
    /\ op = "conc_to_pkp"
    /\ Len(results) = Len(x_0_all)
    /\ IF Len(results) = 0
       THEN ret' = Raise("ValueError") /\ idx' = 0
       ELSE /\ idx' = minimize_global(results)
            /\ ret' = Ok(conc_to_pkp_result(args, results[idx']))
    /\ pc' = "done"
    /\ UNCHANGED <<op, args, x_0_all, cost, calls, results, roots, C_t>>

Call_enh_to_pkp ==
    /\ pc = "idle"
    /\ \E fa \in FitInputs, wx \in WaterExModels :
         LET a == [pk_model |-> fa.pk_model, data |-> fa.data,
                   pk_pars_0 |-> fa.pk_pars_0, weights |-> fa.weights,
                   hct |-> F(1, 2), k |-> Num(1), R10_tissue |-> Num(1),
                   R10_blood |-> Num(1), water_ex_model |-> wx]
         IN  /\ \A j \in 1..Len(pk_pars_0_or_default(a)) :
                   pk_pars_0_or_default(a)[j] \in PkCandidates(a.pk_model)
             /\ args' = a
             /\ x_0_all' = [j \in 1..Len(pk_pars_0_or_default(a)) |->
                              Normalize(a.pk_model,
                                        pkp_array(a.pk_model, pk_pars_0_or_default(a)[j]))]
             /\ cost' = [x \in CandNorm(a.pk_model) |-> enh_to_pkp_cost(a, x)]
    /\ op' = "enh_to_pkp"
    /\ pc' = "minimize_global"
    /\ results' = <<>>
    /\ calls' = <<>>
    /\ idx' = 0
    /\ UNCHANGED <<ret, roots, C_t>>

Return_enh_to_pkp ==
    /\ pc = "minimize_global"
    /\ op = "enh_to_pkp"
    /\ Len(results) = Len(x_0_all)
    /\ IF Len(results) = 0
       THEN ret' = Raise("ValueError") /\ idx' = 0
       ELSE /\ idx' = minimize_global(results)
            /\ ret' = Ok(enh_to_pkp_result(args, results[idx']))
    /\ pc' = "done"
    /\ UNCHANGED <<op, args, x_0_all, cost, calls, results, roots, C_t>>

----------------------------------------------------------------------------
Init ==
    /\ pc = "idle"
    /\ op = "none"
    /\ args = <<>>
    /\ ret = NoRet
    /\ x_0_all = <<>>
    /\ cost = <<>>
    /\ calls = <<>>
    /\ results = <<>>
    /\ idx = 0
    /\ roots = <<>>
    /\ C_t = <<>>

NextTranslator ==
    \/ Call_sig_to_enh
    \/ Call_enh_to_conc
    \/ Step_enh_to_conc_single
    \/ Return_enh_to_conc

SpecTranslator == Init /\ [][NextTranslator]_vars

NextForward ==
    \/ Call_volume_fractions
    \/ Call_pkp_to_enh

SpecForward == Init /\ [][NextForward]_vars

NextMinimize ==
    \/ Call_minimize_global
    \/ Step_minimize
    \/ Return_minimize_global

SpecMinimize == Init /\ [][NextMinimize]_vars

NextFit ==
    \/ Call_conc_to_pkp
    \/ Call_enh_to_pkp
    \/ Step_minimize
    \/ Return_conc_to_pkp
    \/ Return_enh_to_pkp

SpecFit == Init /\ [][NextFit]_vars

Next == NextTranslator \/ NextForward \/ NextMinimize \/ NextFit

Spec == Init /\ [][Next]_vars
----------------------------------------------------------------------------
(* Claims about the translator, checked under SpecTranslator *)

RECURSIVE SumInt(_, _)
SumInt(s, i) == IF i > Len(s) THEN 0 ELSE s[i] + SumInt(s, i + 1)

\* the sum of the signal samples at the baseline indices of the call
BaselineSum == SumInt([j \in 1..Len(args.base_idx) |-> args.s[args.base_idx[j] + 1]], 1)

SigReturned == pc = "done" /\ op = "sig_to_enh"

\* C9: sig_to_enh returns one value per sample, in order, equal to
\* 100 * (s[i] - ref) / ref for ref the mean of the baseline samples (stated
\* with the division cleared: enh[i] * sum = 100 * (n * s[i] - sum), n the
\* number of baseline indices and sum the sum of their samples); a constant
\* nonzero series gives zeros, and the worked example gives 0,0,0,50,40,20.
C9_SigToEnhFormula ==
    (SigReturned /\ ret.kind = "ok") =>
        LET s == args.s
            n == Len(args.base_idx)
            enh == ret.val
        IN  /\ Len(enh) = Len(s)
            /\ (n > 0 /\ BaselineSum # 0) =>
                 \A i \in 1..Len(s) :
                    /\ IsFinite(enh[i])
                    /\ enh[i].n * BaselineSum
                         = Percent * (n * s[i] - BaselineSum) * enh[i].d
            /\ (n > 0 /\ \A i \in 1..Len(s) : s[i] = s[1] /\ s[i] # 0) =>
                 \A i \in 1..Len(s) : enh[i] = Num(0)
            /\ (s = ExampleSignal /\ args.base_idx = ExampleBaseline) =>
                 enh = <<Num(0), Num(0), Num(0), Num(50), Num(40), Num(20)>>

\* the worked example was converted, and so was a series that rises above
\* a nonzero baseline
C9_Witness ==
    /\ SigReturned
    /\ ret.kind = "ok"
    /\ args.s = ExampleSignal
    /\ ret.val[4] = Num(50)

\* C4: sig_to_enh fails, and returns no series, when the baseline index list
\* is empty or the mean of the baseline samples is zero.
C4_DomainError ==
    (SigReturned /\ (Len(args.base_idx) = 0 \/ BaselineSum = 0)) =>
        ret.kind = "raise"

\* C6: enh_to_conc stops with an error at the first sample whose root
\* finding does not converge, and returns no series then; when it returns,
\* every sample converged and the series holds, in order, the concentration
\* found for each sample.
C6_AbortOnRootFailure ==
    (op = "enh_to_conc") =>
        /\ \A i \in 1..Len(roots) :
              /\ roots[i].e = args.enh[i]
              /\ ~roots[i].res.success =>
                    (i = Len(roots) /\ pc = "done" /\ ret.kind = "raise")
        /\ (pc = "done" /\ ret.kind = "raise") =>
              (Len(roots) > 0 /\ ~roots[Len(roots)].res.success)
        /\ (pc = "done" /\ ret.kind = "ok") =>
              /\ Len(ret.val) = Len(args.enh)
              /\ Len(roots) = Len(args.enh)
              /\ \A i \in 1..Len(args.enh) :
                    roots[i].res.success /\ ret.val[i] = roots[i].res.x[1]

\* a conversion that failed at its second sample, after the first converged
C6_Witness ==
    /\ op = "enh_to_conc"
    /\ pc = "done"
    /\ ret.kind = "raise"
    /\ Len(args.enh) = 2
    /\ Len(roots) = 2
    /\ roots[1].res.success

EnhReturned == pc = "done" /\ op = "enh_to_conc" /\ ret.kind = "ok"

----------------------------------------------------------------------------
(* Claims about the forward model, checked under SpecForward *)

\* C8: for a haematocrit other than 1, volume_fractions returns fractions
\* that sum to 1, with vb = vp/(1 - hct) when 'vp' is given and 0 when not;
\* without 've', vi = 0 and ve = 1 - vb; with 've', ve is that parameter
\* and vi = 1 - vb - ve.  It returns them whatever their signs.
C8_VolumeConservation ==
    (pc = "done" /\ op = "volume_fractions" /\ args.hct # Num(1)) =>
        LET pars == args.pk_pars
            v == ret.val
        IN  /\ ret.kind = "ok"
            /\ IsFinite(v.b) /\ IsFinite(v.e) /\ IsFinite(v.i)
            /\ (v.b.n * v.e.d * v.i.d) + (v.e.n * v.b.d * v.i.d)
                 + (v.i.n * v.b.d * v.e.d) = v.b.d * v.e.d * v.i.d
            /\ IF "vp" \in DOMAIN pars
               THEN FMul(v.b, FSub(Num(1), args.hct)) = pars["vp"]
               ELSE v.b = Num(0)
            /\ IF "ve" \in DOMAIN pars
               THEN v.e = pars["ve"] /\ FAdd(v.i, FAdd(v.b, v.e)) = Num(1)
               ELSE v.i = Num(0) /\ FAdd(v.e, v.b) = Num(1)

\* fractions were returned although one of them is negative, from a
\* parameter set with both 'vp' and 've'
C8_Witness ==
    /\ pc = "done"
    /\ op = "volume_fractions"
    /\ args.hct # Num(1)
    /\ DOMAIN args.pk_pars = {"vp", "ps", "ve"}
    /\ ret.kind = "ok"
    /\ ret.val.b.n > 0
    /\ ret.val.i.n < 0

\* C10: for a haematocrit other than 1, pkp_to_enh divides by nonzero
\* values only (v['b'], v['e'] and 1 - vb), and every entry of the
\* enhancement series it returns is a finite number.
C10_NoZeroDivisor ==
    (pc = "done" /\ op = "pkp_to_enh" /\ args.hct # Num(1)) =>
        LET dv == pkp_divisors(args.pk_pars, args.hct)
        IN  /\ dv.vb # Num(0)
            /\ dv.ve # Num(0)
            /\ dv.one_minus_vb # Num(0)
            /\ \A t \in 1..NT : IsFinite(ret.val[t])
----------------------------------------------------------------------------
(* Claims about minimize_global, checked under SpecMinimize *)

MinimizeReturned == pc = "done" /\ op = "minimize_global"

\* a <= b for two finite values
LeqFinite(a, b) == a.n * b.d <= b.n * a.d

\* C1: minimize_global runs one local minimization per initial guess, in
\* list order, and returns the result at the first index whose cost is the
\* lowest: the returned cost is at most the cost of every start, and no
\* earlier start reached the same cost.
C1_BestOfStarts ==
    (op = "minimize_global") =>
        /\ Len(calls) = Len(results)
        /\ Len(calls) <= Len(x_0_all)
        /\ \A i \in 1..Len(calls) : calls[i] = x_0_all[i]
        /\ (MinimizeReturned /\ Len(x_0_all) >= 1) =>
              /\ Len(results) = Len(x_0_all)
              /\ ret.kind = "ok"
              /\ idx \in 1..Len(results)
              /\ ret.val = results[idx]
              /\ \A j \in 1..Len(results) : LeqFinite(results[idx].fun, results[j].fun)
              /\ \A j \in 1..(idx - 1) : results[j].fun # results[idx].fun

\* two starts stopped at different points of equal cost, and the result of
\* the first was returned
C1_Witness ==
    /\ MinimizeReturned
    /\ Len(results) = 2
    /\ results[1].fun = results[2].fun
    /\ results[1].x # results[2].x
    /\ idx = 1
    /\ ret.val = results[1]

\* the starts whose local minimization reported convergence
Converged == {i \in 1..Len(results) : results[i].success}

\* C2: when some starts converge and some do not, minimize_global returns
\* the lowest-cost result among the converged starts, never the result of a
\* start that did not converge; when no start converges it fails.
C2_BestOfConverged ==
    (MinimizeReturned /\ Len(x_0_all) >= 1) =>
        /\ (Converged = {}) => ret.kind = "raise"
        /\ (Converged # {} /\ Converged # 1..Len(results)) =>
              /\ ret.kind = "ok"
              /\ ret.val.success
              /\ \A i \in Converged : LeqFinite(ret.val.fun, results[i].fun)

\* C3: minimize_global fails when the local optimizer reports
\* non-convergence for a start, and it runs exactly one local minimization
\* per initial guess.
C3_FailsOnNonConvergence ==
    MinimizeReturned =>
        /\ (\E i \in 1..Len(results) : ~results[i].success) => ret.kind = "raise"
        /\ calls = x_0_all

----------------------------------------------------------------------------
(* Claims about the fits, checked under SpecFit *)

\* the cost function of the fit fn for arguments a
fit_cost(fn, a, x_norm) ==
    IF fn = "conc_to_pkp" THEN conc_to_pkp_cost(a, x_norm)
    ELSE enh_to_pkp_cost(a, x_norm)

\* the series the forward model of the fit fn predicts for pk_pars
fit_prediction(fn, a, pk_pars) ==
    IF fn = "conc_to_pkp" THEN pk_model_conc_C_t(pk_pars)
    ELSE pkp_to_enh(pk_pars, a.hct, a.k, a.R10_tissue, a.R10_blood, a.water_ex_model)

\* the weight exclusion property for one of the two fits
WeightExclusion(fn) ==
    (op = fn) =>
        LET w == weights_or_default(args)
        IN  /\ \A d \in [1..NT -> DataVals] :
                  (\A t \in 1..NT : w[t] # Num(0) => d[t] = args.data[t]) =>
                      \A x \in DOMAIN cost :
                          fit_cost(fn, [args EXCEPT !.data = d], x) = cost[x]
            /\ (pc = "done" /\ ret.kind = "ok") =>
                  \A t \in 1..NT :
                      /\ IsNaN(ret.val.fit[t]) <=> (w[t] = Num(0))
                      /\ (w[t] # Num(0)) =>
                            ret.val.fit[t]
                              = fit_prediction(fn, args, ret.val.pk_pars_opt)[t]

\* C5: in conc_to_pkp and enh_to_pkp an observed series changed only where
\* the weight is 0 gives every candidate the same cost, and the fitted
\* series is not-a-number exactly where the weight is 0 and the model
\* prediction for the optimal parameters everywhere else.
C5_WeightExclusion == WeightExclusion("conc_to_pkp") /\ WeightExclusion("enh_to_pkp")
====
